---- MODULE Spec2Model ----
(***************************************************************************)
(* Model of app.py: a Streamlit script that is re-run from top to bottom   *)
(* on every user interaction.  One behaviour of the model is one server    *)
(* process: the file on disk is fixed, the st.cache_data store lives       *)
(* across passes, every other variable belongs to the current pass.        *)
(*                                                                         *)
(* Areas are integers: the number of hundredths of a km2 that              *)
(* round(area / 10**6, 2) yields (app.py line 73).                         *)
(* An optional value (a Python name that may be unbound, or None) is a     *)
(* sequence of length 0 or 1.                                              *)
(***************************************************************************)
EXTENDS Integers, Sequences, FiniteSets, TLC

\* ------------------------------------------------------------------ bounds
MaxRows == 3
MaxArea == 2

\* ------------------------------------------------------------- input space
Names == {"A", "B", "C"}

AllCols == {"sta_name", "sta_code", "sta_type", "geometry"}

\* Column sets a parsed file may carry: the full schema, the schema without
\* the categorical column, and a file whose features have no properties.
ColumnChoices == {AllCols, AllCols \ {"sta_type"}, {"geometry"}}

CodeOf == [n \in Names |-> IF n = "A" THEN "01" ELSE IF n = "B" THEN "02" ELSE "03"]

TypeOf == [n \in Names |-> IF n = "C" THEN "distrito" ELSE "estado"]

None == <<>>

Some(x) == <<x>>

\* Rows of a GeoDataFrame as read_file builds it: a RangeIndex label, the
\* attribute values, and the geometry, kept as the area it measures.
RowSeqs ==
    UNION { { [i \in 1..n |-> [idx |-> i - 1, sta_name |-> f[i][1], sta_code |-> CodeOf[f[i][1]],
                               sta_type |-> TypeOf[f[i][1]], area |-> f[i][2]]] :
                f \in { g \in [1..n -> Names \X (1..MaxArea)] :
                          \A i, j \in 1..n : i # j => g[i][1] # g[j][1] } } :
            n \in 0..MaxRows }

\* The value a row shows for an attribute column the file does not have;
\* the script never gets to read it, the access raises KeyError first.
Absent == "(no column)"

Project(rows, cols) ==
    [i \in 1..Len(rows) |->
        [idx |-> rows[i].idx,
         sta_name |-> IF "sta_name" \in cols THEN rows[i].sta_name ELSE Absent,
         sta_code |-> IF "sta_code" \in cols THEN rows[i].sta_code ELSE Absent,
         sta_type |-> IF "sta_type" \in cols THEN rows[i].sta_type ELSE Absent,
         area |-> rows[i].area]]

Datasets == { [columnas |-> c, filas |-> Project(r, c)] : c \in ColumnChoices, r \in RowSeqs }

NoData == [columnas |-> {"geometry"}, filas |-> <<>>]

\* The file georef-mexico-state.geojson as the process finds it.
Archivos ==
    { [existe |-> FALSE, legible |-> FALSE, datos |-> NoData],
      [existe |-> TRUE, legible |-> FALSE, datos |-> NoData] }
    \cup { [existe |-> TRUE, legible |-> TRUE, datos |-> d] : d \in Datasets }

\* ------------------------------------------------------------------- state
VARIABLES
    archivo,               \* the dataset file on disk
    cache,                 \* st.cache_data entry of load_local_geojson(estados_file)
    lecturas,              \* number of gpd.read_file calls made by the process
    pc,                    \* position of the current pass in the script
    origen,                \* where this pass's gdf_estados came from
    mensajes,              \* st.error messages shown in this pass
    excepcion,             \* the uncaught exception that ended this pass
    gdf_estados,
    estado_seleccionado,
    gdf_filtrado,
    df_estados,
    tabla,                 \* rows of st.dataframe(df_estados.sort_values(...))
    metricas,              \* the three st.metric values
    barras,                \* bars of the barh chart, bottom to top
    tipo_counts,
    capa_base,
    mostrar_capitales,
    mostrar_herramientas,
    m,                     \* the folium.Map: its children in add_to order
    mapa                   \* what st_folium was given

vars ==
    <<archivo, cache, lecturas, pc, origen, mensajes, excepcion, gdf_estados,
      estado_seleccionado, gdf_filtrado, df_estados, tabla, metricas, barras,
      tipo_counts, capa_base, mostrar_capitales, mostrar_herramientas, m, mapa>>

proceso == <<archivo, cache, lecturas>>

carga == <<origen, gdf_estados>>

filtro == <<estado_seleccionado, gdf_filtrado>>

estadisticas == <<df_estados, tabla, metricas>>

graficas == <<barras, tipo_counts>>

escena == <<capa_base, mostrar_capitales, mostrar_herramientas, m, mapa>>

\* ---------------------------------------------------------------- helpers
Range(s) == { s[i] : i \in 1..Len(s) }

RECURSIVE SumAreas(_)
SumAreas(rows) ==
    IF rows = <<>> THEN 0 ELSE rows[1].area + SumAreas(Tail(rows))

\* A fresh script namespace: Streamlit executes every pass in a new module.
FreshPass ==
    /\ origen' = "ninguno"
    /\ mensajes' = {}
    /\ excepcion' = "none"
    /\ gdf_estados' = None
    /\ estado_seleccionado' = {}
    /\ gdf_filtrado' = None
    /\ df_estados' = None
    /\ tabla' = None
    /\ metricas' = None
    /\ barras' = None
    /\ tipo_counts' = None
    /\ capa_base' = "CartoDB positron"
    /\ mostrar_capitales' = TRUE
    /\ mostrar_herramientas' = TRUE
    /\ m' = None
    /\ mapa' = None

Init ==
    /\ archivo \in Archivos
    /\ cache = [set |-> FALSE, val |-> None]
    /\ lecturas = 0
    /\ pc = "inicio"
    /\ origen = "ninguno"
    /\ mensajes = {}
    /\ excepcion = "none"
    /\ gdf_estados = None
    /\ estado_seleccionado = {}
    /\ gdf_filtrado = None
    /\ df_estados = None
    /\ tabla = None
    /\ metricas = None
    /\ barras = None
    /\ tipo_counts = None
    /\ capa_base = "CartoDB positron"
    /\ mostrar_capitales = TRUE
    /\ mostrar_herramientas = TRUE
    /\ m = None
    /\ mapa = None

\* ------------------------------------------------------ lines 14-23: file
\* os.path.exists(estados_file); st.error and st.stop when it is missing.
CheckFile ==
    /\ pc = "inicio"
    /\ IF archivo.existe
         THEN /\ pc' = "load"
              /\ mensajes' = mensajes
         ELSE /\ pc' = "stopped"
              /\ mensajes' = mensajes \cup {"no_encontrado"}
    /\ UNCHANGED <<proceso, carga, excepcion, filtro, estadisticas, graficas, escena>>

\* ---------------------------------------------------- lines 25-37: loader
\* gpd.read_file inside try/except: the GeoDataFrame, or None after st.error.
ReadFile(a) ==
    IF a.legible THEN Some(a.datos) ELSE None

\* Faulty variant: a failed load is not memoised, so the next pass reads again.
CacheStoreSinFallos(val) ==
    [set |-> val # None, val |-> val]

\* What st.cache_data keeps after the function returned val: any return
\* value is stored, None included (only a raised exception is not).
CacheStore(val) ==
    [set |-> TRUE, val |-> val]

\* Faulty variant: the None check of lines 36-37 left out.
NeverStop(val) ==
    FALSE

\* if gdf_estados is None: st.stop()
MustStop(val) ==
    val = None

\* A call of the cached function.  On a miss the body runs and its result is
\* stored; on a hit the stored value is returned and the st.error the body
\* issued is replayed (st.cache_data replays static elements).
LoadStep ==
    /\ pc = "load"
    /\ LET hit == cache.set
           val == IF hit THEN cache.val ELSE ReadFile(archivo)
       IN  /\ lecturas' = IF hit THEN lecturas ELSE lecturas + 1
           /\ cache' = IF hit THEN cache ELSE CacheStore(val)
           /\ origen' = IF hit THEN "cache" ELSE "lectura"
           /\ mensajes' = IF val = None THEN mensajes \cup {"error_carga"} ELSE mensajes
           /\ gdf_estados' = val
           /\ pc' = IF MustStop(val) THEN "stopped" ELSE "filter"
    /\ UNCHANGED <<archivo, excepcion, filtro, estadisticas, graficas, escena>>

\* ---------------------------------------------------- lines 48-61: filter
\* gdf_estados['sta_name'].sort_values().unique(): the distinct names (their
\* sorted order only arranges the widget's option list).
EstadosDisponibles(gdf) ==
    { r.sta_name : r \in Range(gdf.filas) }

\* Faulty variant: the mask applied without the truthiness test of line 58.
FiltrarSinVacio(gdf, sel) ==
    [gdf EXCEPT !.filas = SelectSeq(gdf.filas, LAMBDA r : r.sta_name \in sel)]

\* gdf_estados[gdf_estados['sta_name'].isin(sel)] when sel is truthy, else
\* gdf_estados itself.  A boolean mask keeps rows, labels and order.
Filtrar(gdf, sel) ==
    IF sel # {}
      THEN [gdf EXCEPT !.filas = SelectSeq(gdf.filas, LAMBDA r : r.sta_name \in sel)]
      ELSE gdf

\* The multiselect returns any subset of its options (default: all of them).
FilterStep ==
    /\ pc = "filter"
    /\ LET gdf == gdf_estados[1]
       IN  IF "sta_name" \notin gdf.columnas
             THEN /\ excepcion' = "KeyError"
                  /\ pc' = "crashed"
                  /\ UNCHANGED filtro
             ELSE /\ \E sel \in SUBSET EstadosDisponibles(gdf) :
                        /\ estado_seleccionado' = sel
                        /\ gdf_filtrado' = Some(Filtrar(gdf, sel))
                  /\ pc' = "stats"
                  /\ excepcion' = excepcion
    /\ UNCHANGED <<proceso, carga, mensajes, estadisticas, graficas, escena>>

\* ------------------------------------------------ lines 66-85: statistics
\* pd.DataFrame({'Estado': ..., 'Codigo': ..., 'Tipo': ..., 'Area (km2)': ...}):
\* one row per row of gdf_filtrado, under the same index labels.
DfEstados(gdf) ==
    [i \in 1..Len(gdf.filas) |->
        [idx |-> gdf.filas[i].idx, Estado |-> gdf.filas[i].sta_name,
         Codigo |-> gdf.filas[i].sta_code, Tipo |-> gdf.filas[i].sta_type,
         Area |-> gdf.filas[i].area]]

\* sort_values('Area (km2)', ascending=asc) with pandas' default
\* kind='quicksort', which is not stable (numpy's introsort on frames of more
\* than 16 rows, its SIMD sorting networks on any size): every arrangement of
\* the rows that is ordered by area is a possible result.
Ordenes(df, asc) ==
    LET n == Len(df)
        perms == { p \in [1..n -> 1..n] : \A i, j \in 1..n : i # j => p[i] # p[j] }
        ok(p) == \A i \in 1..(n - 1) :
                    IF asc THEN df[p[i]].Area <= df[p[i + 1]].Area
                           ELSE df[p[i]].Area >= df[p[i + 1]].Area
    IN  { [i \in 1..n |-> df[p[i]]] : p \in { q \in perms : ok(q) } }

\* df['Area (km2)'].max()
AreaMaxima(df) ==
    CHOOSE a \in { df[i].Area : i \in 1..Len(df) } :
        \A i \in 1..Len(df) : df[i].Area <= a

\* Faulty variant: the label of the last row, whatever its area.
IdxUltimo(df) ==
    df[Len(df)].idx

\* df['Area (km2)'].idxmax(): the label of the first row holding the maximum.
IdxMax(df) ==
    LET k == CHOOSE i \in 1..Len(df) :
                /\ df[i].Area = AreaMaxima(df)
                /\ \A j \in 1..(i - 1) : df[j].Area < AreaMaxima(df)
    IN  df[k].idx

\* df.loc[label, 'Estado']
LocEstado(df, label) ==
    (CHOOSE r \in Range(df) : r.idx = label).Estado

\* round(df['Area (km2)'].mean(), 2) in hundredths: the quotient total / n
\* rounded to the nearest integer.  A quotient exactly halfway between two
\* hundredths goes to either: the binary float that holds it lies just above
\* or just below the half, and the scalar's rounding rule differs between
\* numpy and the built-in float.
MeanRounded(total, n) ==
    LET q == total \div n
        r == total % n
    IN  IF 2 * r < n THEN {q}
        ELSE IF 2 * r > n THEN {q + 1}
        ELSE {q, q + 1}

SumDf(df) ==
    SumAreas([i \in 1..Len(df) |-> [area |-> df[i].Area]])

\* The three st.metric calls of lines 83-85.
Metricas(df, promedio) ==
    [extenso |-> LocEstado(df, IdxMax(df)),
     maxima |-> AreaMaxima(df),
     promedio |-> promedio]

StatsStep ==
    /\ pc = "stats"
    /\ LET gdf == gdf_filtrado[1]
       IN  IF gdf.filas = <<>>
             THEN /\ pc' = "bar"
                  /\ UNCHANGED <<estadisticas, excepcion>>
             ELSE IF ~({"sta_name", "sta_code", "sta_type"} \subseteq gdf.columnas)
               THEN /\ excepcion' = "KeyError"
                    /\ pc' = "crashed"
                    /\ UNCHANGED estadisticas
               ELSE /\ df_estados' = Some(DfEstados(gdf))
                    /\ \E t \in Ordenes(DfEstados(gdf), FALSE) : tabla' = Some(t)
                    /\ \E p \in MeanRounded(SumDf(DfEstados(gdf)), Len(gdf.filas)) :
                          metricas' = Some(Metricas(DfEstados(gdf), p))
                    /\ pc' = "bar"
                    /\ excepcion' = excepcion
    /\ UNCHANGED <<proceso, carga, mensajes, filtro, graficas, escena>>

\* ------------------------------------------------- lines 87-99: bar chart
\* Faulty variant: the chart sorted like the table, ascending=False.
BarrasDescendentes(df) ==
    Ordenes(df, FALSE)

\* df_estados.sort_values('Area (km2)', ascending=True).plot.barh(...)
Barras(df) ==
    Ordenes(df, TRUE)

\* df_estados is bound only inside the if of line 67.
BarStep ==
    /\ pc = "bar"
    /\ IF df_estados = None
         THEN /\ excepcion' = "NameError"
              /\ pc' = "crashed"
              /\ barras' = barras
         ELSE /\ \E b \in Barras(df_estados[1]) : barras' = Some(b)
              /\ pc' = "pie"
              /\ excepcion' = excepcion
    /\ UNCHANGED <<proceso, carga, mensajes, filtro, estadisticas, tipo_counts, escena>>

\* ------------------------------------------------ lines 101-117: pie chart
\* gdf_filtrado['sta_type'].value_counts()
ValueCounts(gdf) ==
    [t \in { r.sta_type : r \in Range(gdf.filas) } |->
        Cardinality({ i \in 1..Len(gdf.filas) : gdf.filas[i].sta_type = t })]

PieStep ==
    /\ pc = "pie"
    /\ tipo_counts' = IF "sta_type" \in gdf_filtrado[1].columnas
                        THEN Some(ValueCounts(gdf_filtrado[1]))
                        ELSE tipo_counts
    /\ pc' = "map"
    /\ UNCHANGED <<proceso, carga, mensajes, excepcion, filtro, estadisticas, barras, escena>>

\* --------------------------------------------------- lines 119-269: map
BaseLayers == {"CartoDB positron", "OpenStreetMap", "Stamen Terrain", "Stamen Toner"}

Elem(kind, name) == [kind |-> kind, name |-> name, features |-> {}]

\* Faulty variant: one entry of the dict literal lost.
CapitalesIncompletas ==
    <<"CDMX", "Guadalajara", "Monterrey", "Puebla", "Tijuana">>

\* The keys of the capitales dict, in insertion order ("Leon" stands for the
\* accented key of line 233).
Capitales ==
    <<"CDMX", "Guadalajara", "Monterrey", "Puebla", "Tijuana", "Leon">>

\* marker_cluster and the folium.Marker added to it for every capital.
Marcadores ==
    <<Elem("MarkerCluster", "Capitales")>>
        \o [i \in 1..Len(Capitales) |-> Elem("Marker", Capitales[i])]

\* The three folium.TileLayer calls of lines 244-260, made whatever capa_base is.
CapasExtra ==
    <<Elem("TileLayer", "OpenStreetMap"), Elem("TileLayer", "Stamen Terrain"),
      Elem("TileLayer", "Stamen Toner")>>

\* Everything the try block creates, in order.  The first element is the
\* folium.Map itself with the tile layer its constructor adds.
Escena(capa, capitales, herramientas, gdf) ==
    <<Elem("TileLayer", capa),
      [kind |-> "GeoJson", name |-> "Estados", features |-> EstadosDisponibles(gdf)],
      Elem("MeasureControl", ""), Elem("MousePosition", "")>>
    \o (IF herramientas THEN <<Elem("Draw", "")>> ELSE <<>>)
    \o <<Elem("Fullscreen", "")>>
    \o (IF capitales THEN Marcadores ELSE <<>>)
    \o CapasExtra
    \o <<Elem("LayerControl", "")>>

\* The map object after the call creating element k raised (k = 0: no call
\* raised).  When the constructor raises, the name m stays unbound.
Parcial(esc, k) ==
    IF k = 0 THEN Some(esc)
    ELSE IF k = 1 THEN None
    ELSE Some(SubSeq(esc, 1, k - 1))

\* The sidebar controls, the try/except around scene assembly, st_folium(m).
MapStep ==
    /\ pc = "map"
    /\ \E capa \in BaseLayers, capitales \in BOOLEAN, herramientas \in BOOLEAN :
         LET esc == Escena(capa, capitales, herramientas, gdf_filtrado[1])
         IN  \E k \in 0..Len(esc) :
                /\ capa_base' = capa
                /\ mostrar_capitales' = capitales
                /\ mostrar_herramientas' = herramientas
                /\ m' = Parcial(esc, k)
                /\ mensajes' = IF k = 0 THEN mensajes ELSE mensajes \cup {"error_mapa"}
                /\ IF Parcial(esc, k) = None
                     THEN /\ excepcion' = "NameError"
                          /\ pc' = "crashed"
                          /\ mapa' = mapa
                     ELSE /\ excepcion' = excepcion
                          /\ pc' = "done"
                          /\ mapa' = Parcial(esc, k)
    /\ UNCHANGED <<proceso, carga, filtro, estadisticas, graficas>>

\* ------------------------------------------------------------- next pass
\* A user interaction re-runs the script once the previous pass has ended.
Rerun ==
    /\ pc \in {"done", "stopped", "crashed"}
    /\ pc' = "inicio"
    /\ FreshPass
    /\ UNCHANGED proceso

Next ==
    \/ CheckFile
    \/ LoadStep
    \/ FilterStep
    \/ StatsStep
    \/ BarStep
    \/ PieStep
    \/ MapStep
    \/ Rerun

Spec == Init /\ [][Next]_vars

\* =================================================================== claims
NamesOf(rows) == [i \in 1..Len(rows) |-> rows[i].sta_name]

EstadosOf(df) == [i \in 1..Len(df) |-> df[i].Estado]

Kinds(escn, kind) == { i \in 1..Len(escn) : escn[i].kind = kind }

Ended == pc \in {"done", "stopped", "crashed"}

Assembled == pc = "done" /\ "error_mapa" \notin mensajes

BadFile == ~archivo.existe \/ ~archivo.legible

\* C1: the filter returns the whole dataset, unchanged, when the selection is
\* empty; otherwise exactly the rows whose name is selected, each a row of
\* the dataset, in the dataset's relative order, none of them twice.
C1_Filter ==
    gdf_filtrado # None =>
        LET g == gdf_estados[1].filas
            f == gdf_filtrado[1].filas
            S == estado_seleccionado
        IN  /\ gdf_filtrado[1].columnas = gdf_estados[1].columnas
            /\ S = {} => f = g
            /\ S # {} => Range(NamesOf(f)) = S \cap Range(NamesOf(g))
            /\ \A i \in 1..Len(f) : \E j \in 1..Len(g) : f[i] = g[j] /\ f[i].idx = j - 1
            /\ \A i, j \in 1..Len(f) : i < j => f[i].idx < f[j].idx

\* C1 witness: from the dataset C, B, A the selection {A, C} keeps C then A.
C1_Witness ==
    /\ gdf_filtrado # None
    /\ estado_seleccionado = {"A", "C"}
    /\ NamesOf(gdf_estados[1].filas) = <<"C", "B", "A">>
    /\ NamesOf(gdf_filtrado[1].filas) = <<"C", "A">>

\* C2: in a pass whose file is missing or cannot be parsed, the pass never
\* gets past the loader: it stops with the matching error message shown, and
\* no filter, statistics, chart or map output exists.
C2_HaltOnBadFile ==
    BadFile =>
        /\ pc \in {"inicio", "load", "stopped"}
        /\ pc = "stopped" =>
              mensajes = (IF archivo.existe THEN {"error_carga"} ELSE {"no_encontrado"})
        /\ excepcion = "none"
        /\ gdf_filtrado = None /\ df_estados = None /\ tabla = None /\ metricas = None
        /\ barras = None /\ tipo_counts = None /\ m = None /\ mapa = None

\* C2 witness: a later pass over an unparsable file, answered from the cache,
\* has stopped with the load error shown again.
C2_Witness ==
    /\ archivo.existe /\ ~archivo.legible
    /\ pc = "stopped"
    /\ origen = "cache"
    /\ "error_carga" \in mensajes

\* C3: the process reads the file at most once; once the cache holds an
\* entry (a dataset or a failure) no step reads again or replaces the entry,
\* and a load step returns the entry.
C3_ReadOnce ==
    /\ [](lecturas <= 1 /\ (cache.set <=> lecturas = 1))
    /\ [][cache.set => lecturas' = lecturas /\ cache' = cache]_vars
    /\ [][(pc = "load" /\ cache.set) => gdf_estados' = cache.val]_vars

\* C3 witness: a pass got its dataset from the cache after a single read.
C3_Witness ==
    /\ origen = "cache"
    /\ pc = "filter"
    /\ lecturas = 1
    /\ gdf_estados = cache.val
    /\ gdf_estados # None

\* C4 as stated: the table is sorted by descending area, its first row is
\* the reported largest region with the reported maximum area, and the
\* reported mean is the arithmetic mean of the area column.
C4_Original ==
    tabla # None =>
        LET t == tabla[1]
            n == Len(t)
        IN  /\ \A i \in 1..(n - 1) : t[i].Area >= t[i + 1].Area
            /\ t[1].Estado = metricas[1].extenso
            /\ t[1].Area = metricas[1].maxima
            /\ metricas[1].promedio * n = SumDf(t)

\* C4 amended: the table holds the rows of the view sorted by descending
\* area; the reported maximum is the first row's area; the reported largest
\* region is the first region in view order that has that area, hence the
\* first row's region whenever a single region has it; the reported mean is
\* the arithmetic mean of the column rounded to two decimals (within half a
\* hundredth of it, and equal to it when it has at most two decimals).
C4_Amended ==
    tabla # None =>
        LET t == tabla[1]
            df == DfEstados(gdf_filtrado[1])
            n == Len(t)
            mt == metricas[1]
            tops == { i \in 1..n : df[i].Area = mt.maxima }
            d == mt.promedio * n - SumDf(t)
        IN  /\ n = Len(df) /\ n > 0 /\ Range(t) = Range(df)
            /\ \A i \in 1..(n - 1) : t[i].Area >= t[i + 1].Area
            /\ t[1].Area = mt.maxima
            /\ tops # {}
            /\ \A i \in tops : (\A j \in tops : i <= j) => df[i].Estado = mt.extenso
            /\ Cardinality(tops) = 1 => t[1].Estado = mt.extenso
            /\ 2 * d <= n /\ -2 * d <= n
            /\ SumDf(t) % n = 0 => d = 0

\* C4 witness: the view B (0.02), C (0.01): table B, C; largest B; the mean
\* 0.015 is reported as 0.02.
C4_Witness ==
    /\ tabla # None
    /\ NamesOf(gdf_filtrado[1].filas) = <<"B", "C">>
    /\ EstadosOf(tabla[1]) = <<"B", "C">>
    /\ metricas[1] = [extenso |-> "B", maxima |-> 2, promedio |-> 2]
    /\ SumDf(tabla[1]) = 3

\* C5: whenever scene assembly reported an error, the pass still reached the
\* final render step with the scene built so far and ended without an
\* uncaught exception.
C5_AssemblyErrorsCaught ==
    "error_mapa" \in mensajes =>
        /\ pc = "done"
        /\ excepcion = "none"
        /\ mapa # None

\* C6: with a dataset that lacks only the sta_type column a pass raises no
\* error, shows no type counts, and ends with table, bar chart and map shown.
C6_MissingTypeSilent ==
    (gdf_estados # None /\ gdf_estados[1].columnas = AllCols \ {"sta_type"}) =>
        /\ excepcion = "none"
        /\ tipo_counts = None
        /\ Ended => (pc = "done" /\ barras # None /\ mapa # None)

\* C7: in a pass whose scene assembly succeeded the map holds exactly six
\* capital markers when mostrar_capitales is true and none when it is false.
C7_SixMarkers ==
    Assembled =>
        /\ Cardinality(Kinds(mapa[1], "Marker")) = (IF mostrar_capitales THEN 6 ELSE 0)
        /\ Cardinality({ mapa[1][i].name : i \in Kinds(mapa[1], "Marker") })
              = (IF mostrar_capitales THEN 6 ELSE 0)
        /\ Cardinality(Kinds(mapa[1], "MarkerCluster")) = (IF mostrar_capitales THEN 1 ELSE 0)

\* C7 witness: only region A is selected and shown, yet the six markers are
\* on the map.
C7_Witness ==
    /\ Assembled
    /\ mostrar_capitales
    /\ estado_seleccionado = {"A"}
    /\ Len(gdf_estados[1].filas) = 3
    /\ Cardinality(Kinds(mapa[1], "Marker")) = 6

\* C8: the bar chart has one bar per region of the view, each with that
\* region's area, in ascending order of area; with an empty selection the
\* bars and the table rows are as many as the dataset's rows.
C8_BarChart ==
    barras # None =>
        LET b == barras[1]
            f == gdf_filtrado[1].filas
        IN  /\ Len(b) = Len(f)
            /\ \A i \in 1..Len(f) :
                  Cardinality({ k \in 1..Len(b) : b[k].Estado = f[i].sta_name }) = 1
            /\ \A k \in 1..Len(b) :
                  \E i \in 1..Len(f) : b[k].Estado = f[i].sta_name /\ b[k].Area = f[i].area
            /\ \A k \in 1..(Len(b) - 1) : b[k].Area <= b[k + 1].Area
            /\ estado_seleccionado = {} =>
                  /\ Len(b) = Len(gdf_estados[1].filas)
                  /\ Len(tabla[1]) = Len(gdf_estados[1].filas)

\* C8 witness: nothing selected, dataset A, B, C with B the largest: three
\* bars ordered A, C, B.
C8_Witness ==
    /\ barras # None
    /\ estado_seleccionado = {}
    /\ NamesOf(gdf_estados[1].filas) = <<"A", "B", "C">>
    /\ EstadosOf(barras[1]) = <<"A", "C", "B">>
    /\ barras[1][3].Area > barras[1][2].Area

\* C9: a pass whose view is empty (a dataset with the full schema and no
\* regions) computes no metrics and ends at the map without an uncaught
\* exception.
C9_EmptyViewSafe ==
    (gdf_filtrado # None /\ gdf_filtrado[1] = [columnas |-> AllCols, filas |-> <<>>]) =>
        /\ metricas = None
        /\ excepcion = "none"
        /\ Ended => pc = "done"

\* C10: in a pass whose scene assembly succeeded the drawing tool is on the
\* map exactly when mostrar_herramientas is true; the region layer, the
\* measurement tool, the coordinate readout and the fullscreen control are
\* there once each; no tile provider is there twice; and the layer control
\* is the last element added.
C10_SceneContents ==
    Assembled =>
        LET e == mapa[1]
        IN  /\ Cardinality(Kinds(e, "Draw")) = (IF mostrar_herramientas THEN 1 ELSE 0)
            /\ \A k \in {"GeoJson", "MeasureControl", "MousePosition", "Fullscreen"} :
                  Cardinality(Kinds(e, k)) = 1
            /\ \A i, j \in Kinds(e, "TileLayer") : e[i].name = e[j].name => i = j
            /\ e[Len(e)].kind = "LayerControl"
            /\ Cardinality(Kinds(e, "LayerControl")) = 1

====
